---- MODULE Spec2Model ----
(***************************************************************************)
(* Model of xrayreco/preprocessing.py: the resolver                        *)
(* circular_crown_logical_coordinates and the class Xraydata, which reads  *)
(* a file of circular-readout events and builds the feature and target     *)
(* arrays.                                                                 *)
(*                                                                         *)
(* The hexagonal grid and the event file are library objects               *)
(* (hexsample.hexagon.HexagonalGrid, hexsample.fileio.                     *)
(* DigiInputFileCircular).  They are modelled at the places where the      *)
(* source calls them, by the interface the source relies on:               *)
(*   - neighbors(col, row) reports the adjacent pixels that lie on the     *)
(*     grid, in an order that is the grid's own (variable rot);            *)
(*   - adc_channel(col, row) is a wiring under which a pixel and its six   *)
(*     neighbours sit on seven different channels (variable wiring);       *)
(*   - pixel_to_world is the ODD_R offset-to-cartesian conversion, in      *)
(*     units of pitch/2 (x) and pitch*sqrt(3)/2 (y), so that all           *)
(*     coordinates are integers;                                           *)
(*   - iterating the file either restarts from the first event or goes on  *)
(*     from where the previous iteration stopped (variable rewinds): the   *)
(*     source does not fix which.                                          *)
(***************************************************************************)
EXTENDS Integers, Sequences, FiniteSets

\* ---- bounds ----
MaxEvents == 2
NumCols == 3
NumRows == 4

\* ---- program constants ----
\* number of pixels of a circular event, and of ADC channels of its readout
CrownSize == 7

VARIABLES
    rot,        \* grid: rotation of the order in which neighbors() reports
    wiring,     \* grid: <<a, b>> of the ADC channel labelling
    rewinds,    \* input_file: TRUE when __iter__ restarts from the first event
    events,     \* input_file: the stored events (digi table + MC table)
    index,      \* input_file: number of events the cursor has gone past
    isopen,     \* input_file: the file is open
    alive,      \* the Xraydata instance exists
    features,   \* outcome of the last input_events_data()
    targets     \* outcome of the last target_data()

vars == <<rot, wiring, rewinds, events, index, isopen, alive, features, targets>>

\* ---- the grid (hexsample.hexagon.HexagonalGrid, ODD_R layout) ----
Pixels == (0..(NumCols - 1)) \X (0..(NumRows - 1))

OnGrid(p) == p \in Pixels

\* offsets of the six neighbours, clockwise from upper-right:
\* ur, r, dr, dl, l, ul; odd rows are shoved right by half a pitch.
NeighborOffsets(row) ==
    IF row % 2 = 0
    THEN << <<0, -1>>, <<1, 0>>, <<0, 1>>, <<-1, 1>>, <<-1, 0>>, <<-1, -1>> >>
    ELSE << <<1, -1>>, <<1, 0>>, <<1, 1>>, <<0, 1>>, <<-1, 0>>, <<0, -1>> >>

\* the six adjacent positions in the order the grid reports them
Adjacent(column, row, r) ==
    [k \in 1..6 |->
        LET d == NeighborOffsets(row)[((k - 1 + r) % 6) + 1]
        IN  <<column + d[1], row + d[2]>>]

\* grid.neighbors(column, row): the adjacent pixels that are on the grid
neighbors(column, row) == SelectSeq(Adjacent(column, row, rot), OnGrid)

\* grid.adc_channel(col, row): 0..6
adc_channel(col, row) ==
    LET q == col - ((row - (row % 2)) \div 2)
    IN  (wiring[1] * (q + 3 * row) + wiring[2]) % CrownSize

\* grid.pixel_to_world(col, row), per pixel
pixel_to_world(col, row) == <<2 * col + (row % 2), 0 - row>>

\* ---- the resolver ----
\* variant: the central pixel appended after its neighbours
crown_center_last(column, row) ==
    neighbors(column, row) \o << <<column, row>> >>

circular_crown_logical_coordinates(column, row) ==
    << <<column, row>> >> \o neighbors(column, row)

\* ---- the event file (hexsample.fileio.DigiInputFileCircular) ----
\* centres of the stored events: a corner, an edge pixel, and two interior
\* pixels, one on an odd and one on an even row
Centers == {<<0, 0>>, <<0, 1>>, <<1, 1>>, <<1, 2>>}

\* per-channel signals of an event, indexed by ADC channel + 1
PhaOf(k) ==
    IF k = 0 THEN <<10, 20, 30, 40, 50, 60, 70>>
    ELSE <<7, 0, 3, 3, 1, 9, 4>>

\* a stored event: the digi record and the MC truth of the same table row;
\* variant 0 is hit exactly at the centre of its central pixel
EventOf(c, k) ==
    LET w == pixel_to_world(c[1], c[2])
    IN  [column |-> c[1], row |-> c[2], pha |-> PhaOf(k),
         energy |-> IF k = 0 THEN 5 ELSE 8,
         absx |-> IF k = 0 THEN w[1] ELSE w[1] + 1,
         absy |-> IF k = 0 THEN w[2] ELSE w[2] - 2]

EventSet == {EventOf(c, k) : c \in Centers, k \in {0, 1}}

Streams == UNION {[1..n -> EventSet] : n \in 0..MaxEvents}

\* where an iteration of the file starts: __iter__ of the file
IterStart(cursor) == IF rewinds THEN 0 ELSE cursor

\* the table rows one full iteration yields, in order, from a start cursor
Iterate(start) == [j \in 1..(Len(events) - start) |-> start + j]

\* input_file.mc_column(name): the whole MC column, whatever the cursor
mc_column(name) ==
    [i \in 1..Len(events) |->
        IF name = "energy" THEN events[i].energy
        ELSE IF name = "absx" THEN events[i].absx
        ELSE events[i].absy]

\* ---- numpy ----
\* length of the broadcast of two 1-d arrays; -1 when they do not broadcast
BLen(a, b) == IF a = b THEN a ELSE IF a = 1 THEN b ELSE IF b = 1 THEN a ELSE -1

\* element i of a 1-d array broadcast to a longer one
Pick(s, i) == IF Len(s) = 1 THEN s[1] ELSE s[i]

Min(a, b) == IF a < b THEN a ELSE b

\* np.array(list of rows) accepts the list when the rows have one shape
Uniform(rs) == \A i, j \in 1..Len(rs) : Len(rs[i].entries) = Len(rs[j].entries)

\* ---- Xraydata ----
NoResult == [status |-> "none", rows |-> <<>>, passes |-> 0]
Raised(n) == [status |-> "error", rows |-> <<>>, passes |-> n]
Returned(rs, n) == [status |-> "ok", rows |-> rs, passes |-> n]

\* variant: the raw array taken in acquisition order, wiring ignored
GatherUnordered(pha, order) == [i \in 1..Len(order) |-> pha[i]]

\* variant: every position filled from the channel of the central pixel
GatherCentral(pha, order) == [i \in 1..Len(order) |-> pha[order[1] + 1]]

\* event.pha[adc_channel_order]
Gather(pha, order) == [i \in 1..Len(order) |-> pha[order[i] + 1]]

\* variant: physical coordinates left absolute
OffsetAbsolute(xy, j) == xy[j]

\* (x - x[0], y - y[0]) at position j
Offset(xy, j) == <<xy[j][1] - xy[1][1], xy[j][2] - xy[1][2]>>

\* body of the loop of input_events_data for the event of table row i
FeatureRow(i) ==
    LET event == events[i]
        coordinates == circular_crown_logical_coordinates(event.column, event.row)
        adc_channel_order ==
            [j \in 1..Len(coordinates) |->
                adc_channel(coordinates[j][1], coordinates[j][2])]
        pha == Gather(event.pha, adc_channel_order)
        xy == [j \in 1..Len(coordinates) |->
                pixel_to_world(coordinates[j][1], coordinates[j][2])]
    IN  [ev |-> i,
         coordinates |-> coordinates,
         entries |-> [j \in 1..Len(coordinates) |->
                        <<pha[j], Offset(xy, j)[1], Offset(xy, j)[2]>>]]

\* variant: events with an incomplete crown left out of the list
EventsDataSkipping(start) ==
    LET it == Iterate(start)
        Complete(i) == Len(FeatureRow(i).coordinates) = CrownSize
        kept == SelectSeq(it, Complete)
    IN  [j \in 1..Len(kept) |-> FeatureRow(kept[j])]

\* the list events_data after the loop over an iteration started at start
EventsData(start) ==
    LET it == Iterate(start)
    IN  [j \in 1..Len(it) |-> FeatureRow(it[j])]

\* Xraydata.input_events_data()
InputEventsData ==
    /\ alive
    /\ IF ~isopen
       THEN /\ features' = Raised(1)
            /\ index' = IterStart(index)
       ELSE /\ index' = Len(events)
            /\ LET events_data == EventsData(IterStart(index))
               IN  \E raises \in (IF Uniform(events_data) THEN {FALSE} ELSE BOOLEAN) :
                      features' = IF raises THEN Raised(1)
                                  ELSE Returned(events_data, 1)
    /\ UNCHANGED <<rot, wiring, rewinds, events, isopen, alive, targets>>

\* variant: columns and rows handed over in the wrong order
WorldOfSwapped(cols, rows) ==
    [j \in 1..BLen(Len(cols), Len(rows)) |->
        [colEv |-> Pick(cols, j), rowEv |-> Pick(rows, j),
         xy |-> pixel_to_world(events[Pick(rows, j)].row,
                               events[Pick(cols, j)].column)]]

\* x_max, y_max of target_data: pixel_to_world(cols, rows) over numpy arrays
WorldOf(cols, rows) ==
    [j \in 1..BLen(Len(cols), Len(rows)) |->
        [colEv |-> Pick(cols, j), rowEv |-> Pick(rows, j),
         xy |-> pixel_to_world(events[Pick(cols, j)].column,
                               events[Pick(rows, j)].row)]]

\* target_array of target_data, given the two lists of table rows iterated
TargetArray(cols, rows) ==
    LET energy == mc_column("energy")
        x_hit == mc_column("absx")
        y_hit == mc_column("absy")
        max == WorldOf(cols, rows)
        n == Min(Len(energy), BLen(Len(x_hit), Len(max)))
    IN  [i \in 1..n |->
            [ev |-> i, colEv |-> Pick(max, i).colEv, rowEv |-> Pick(max, i).rowEv,
             val |-> <<energy[i],
                       Pick(x_hit, i) - Pick(max, i).xy[1],
                       Pick(y_hit, i) - Pick(max, i).xy[2]>>]]

\* Xraydata.target_data()
TargetData ==
    /\ alive
    /\ IF ~isopen
       THEN /\ targets' = Raised(0)
            /\ UNCHANGED index
       ELSE LET cols == Iterate(IterStart(index))
                rows == Iterate(IterStart(Len(events)))
                lmax == BLen(Len(cols), Len(rows))
                ldiff == IF lmax < 0 THEN -1 ELSE BLen(Len(events), lmax)
            IN  /\ index' = Len(events)
                /\ targets' = IF ldiff <= 0 THEN Raised(2)
                              ELSE Returned(TargetArray(cols, rows), 2)
    /\ UNCHANGED <<rot, wiring, rewinds, events, isopen, alive, features>>

\* Xraydata.close_input_file()
CloseInputFile ==
    /\ alive
    /\ isopen' = FALSE
    /\ UNCHANGED <<rot, wiring, rewinds, events, index, alive, features, targets>>

\* variant: the destructor leaves the file as it is
DelNoClose ==
    /\ alive
    /\ alive' = FALSE
    /\ UNCHANGED <<rot, wiring, rewinds, events, index, isopen, features, targets>>

\* Xraydata.__del__()
Del ==
    /\ alive
    /\ isopen' = FALSE
    /\ alive' = FALSE
    /\ UNCHANGED <<rot, wiring, rewinds, events, index, features, targets>>

\* Xraydata.__init__(file_path)
Init ==
    /\ rot \in 0..5
    /\ wiring \in {<<1, 0>>, <<3, 2>>}
    /\ rewinds \in BOOLEAN
    /\ events \in Streams
    /\ index = 0
    /\ isopen = TRUE
    /\ alive = TRUE
    /\ features = NoResult
    /\ targets = NoResult

Next ==
    \/ InputEventsData
    \/ TargetData
    \/ CloseInputFile
    \/ Del

Spec == Init /\ [][Next]_vars

\* ======================= properties =======================

\* sums and ranges used by the properties
RECURSIVE SumSeq(_)
SumSeq(s) == IF s = <<>> THEN 0 ELSE Head(s) + SumSeq(Tail(s))

RECURSIVE SumOver(_, _)
SumOver(f, S) ==
    IF S = {} THEN 0
    ELSE LET c == CHOOSE c \in S : TRUE IN f[c] + SumOver(f, S \ {c})

Range(s) == {s[i] : i \in 1..Len(s)}

\* the central pixel of the event of table row i
CenterOf(i) == <<events[i].column, events[i].row>>

\* the grid reports six neighbours for the central pixel of table row i
Interior(i) == Len(neighbors(events[i].column, events[i].row)) = 6

\* the canonical ordering of table row i under the grid as it is now
Canonical(i) == circular_crown_logical_coordinates(events[i].column, events[i].row)

\* physical coordinates of a logical coordinate
World(c) == pixel_to_world(c[1], c[2])

FeatureRows == IF features.status = "ok" THEN features.rows ELSE <<>>
TargetRows == IF targets.status = "ok" THEN targets.rows ELSE <<>>

\* C1: wherever the grid reports exactly six neighbours of a central pixel,
\* the resolver returns seven coordinates, the first is the central pixel and
\* the other six are a permutation of the reported neighbours; this holds of
\* the resolver on every pixel of the grid and of the coordinates each
\* feature row was built from.
C1_CrownOfSeven ==
    /\ \A c \in Pixels :
          LET nb == neighbors(c[1], c[2])
              out == circular_crown_logical_coordinates(c[1], c[2])
          IN  Len(nb) = 6 =>
                /\ Len(out) = 7
                /\ out[1] = c
                /\ {out[k] : k \in 2..7} = Range(nb)
                /\ Cardinality(Range(nb)) = 6
    /\ \A j \in 1..Len(FeatureRows) :
          LET r == FeatureRows[j]
          IN  Interior(r.ev) =>
                /\ Len(r.coordinates) = 7
                /\ r.coordinates[1] = CenterOf(r.ev)
                /\ {r.coordinates[k] : k \in 2..7} =
                       Range(neighbors(events[r.ev].column, events[r.ev].row))
                /\ Cardinality({r.coordinates[k] : k \in 2..7}) = 6

C1_Witness ==
    \E j \in 1..Len(FeatureRows) :
        Interior(FeatureRows[j].ev) /\ Len(FeatureRows[j].coordinates) = 7

\* C2: for an interior central pixel the coordinates a feature row is built
\* from are the centre followed by the neighbours clockwise from upper-right,
\* whatever the order in which the grid reports the neighbours.
C2_OrderIndependent ==
    \A j \in 1..Len(FeatureRows) :
        LET r == FeatureRows[j]
        IN  Interior(r.ev) =>
              r.coordinates = << CenterOf(r.ev) >> \o
                  Adjacent(events[r.ev].column, events[r.ev].row, 0)

\* C3: no sequence of a length other than seven comes out of the resolver and
\* no feature row of a returned dataset has fewer than seven entries: an
\* event whose central pixel has not six neighbours is signalled, not emitted.
C3_NoShortRow ==
    \A j \in 1..Len(FeatureRows) :
        /\ Len(FeatureRows[j].coordinates) = 7
        /\ Len(FeatureRows[j].entries) = 7

\* C4: the signal at position i of a feature row is the event's raw signal of
\* the ADC channel of the i-th coordinate of the resolver's output for the
\* event's central pixel, for each wiring.
C4_Gather ==
    \A j \in 1..Len(FeatureRows) :
        LET r == FeatureRows[j]
            canonical == Canonical(r.ev)
        IN  /\ Len(r.entries) = Len(canonical)
            /\ \A i \in 1..Len(canonical) :
                  r.entries[i][1] =
                      events[r.ev].pha[adc_channel(canonical[i][1], canonical[i][2]) + 1]

C4_Witness ==
    \E j \in 1..Len(FeatureRows) :
        /\ Interior(FeatureRows[j].ev)
        /\ Len(FeatureRows[j].entries) = 7
        /\ \E i \in 1..7 : FeatureRows[j].entries[i][1] # events[FeatureRows[j].ev].pha[i]

\* C5: when both datasets have been returned on one instance, in either order
\* of the calls, they have the same number of rows, and row i of either is
\* computed from the event of table row i: the feature row from its central
\* pixel, the target row from its truth, its column and its row; no event is
\* left out of one and kept in the other.
C5_Aligned ==
    (features.status = "ok" /\ targets.status = "ok") =>
        /\ Len(features.rows) = Len(targets.rows)
        /\ \A i \in 1..Len(targets.rows) :
              /\ i <= Len(features.rows)
              /\ features.rows[i].ev = targets.rows[i].ev
              /\ targets.rows[i].colEv = features.rows[i].ev
              /\ targets.rows[i].rowEv = features.rows[i].ev
              /\ features.rows[i].coordinates[1] = CenterOf(targets.rows[i].ev)
        /\ {features.rows[i].ev : i \in 1..Len(features.rows)} =
               {targets.rows[i].ev : i \in 1..Len(targets.rows)}

C5_Witness ==
    /\ features.status = "ok"
    /\ targets.status = "ok"
    /\ Len(targets.rows) = 2
    /\ events[1] # events[2]
    /\ ~Interior(1)

C7_TargetRow ==
    \A i \in 1..Len(TargetRows) :
        LET t == TargetRows[i]
            w == World(CenterOf(i))
        IN  /\ t.val = <<events[i].energy, events[i].absx - w[1], events[i].absy - w[2]>>
            /\ (<<events[i].absx, events[i].absy>> = w) => (t.val[2] = 0 /\ t.val[3] = 0)

C7_Witness ==
    /\ Len(TargetRows) = 2
    /\ <<events[1].absx, events[1].absy>> = World(CenterOf(1))
    /\ World(CenterOf(1)) # <<0, 0>>
    /\ <<events[2].absx, events[2].absy>> # World(CenterOf(2))
    /\ CenterOf(1) # CenterOf(2)

\* the seven (or fewer) ADC channels the crown of table row i maps to
ChannelsOf(i) ==
    {adc_channel(Canonical(i)[k][1], Canonical(i)[k][2]) + 1 : k \in 1..Len(Canonical(i))}

\* C8: the signals of a feature row add up to the sum of the event's raw
\* per-channel array over the channels its central pixel and neighbours map
\* to: nothing is dropped, duplicated or altered.
C8_SumPreserved ==
    \A j \in 1..Len(FeatureRows) :
        LET r == FeatureRows[j]
        IN  SumSeq([i \in 1..Len(r.entries) |-> r.entries[i][1]]) =
                SumOver(events[r.ev].pha, ChannelsOf(r.ev))

C8_Witness ==
    \E j \in 1..Len(FeatureRows) :
        /\ Interior(FeatureRows[j].ev)
        /\ Cardinality(ChannelsOf(FeatureRows[j].ev)) = 7
        /\ SumSeq([i \in 1..7 |-> FeatureRows[j].entries[i][1]]) = 280

C10_OnePass ==
    /\ features.status = "ok" =>
          /\ features.passes = 1
          /\ \A j \in 1..Len(features.rows) :
                features.rows[j].ev = Len(events) - Len(features.rows) + j
    /\ targets.status = "ok" =>
          /\ targets.passes = 1
          /\ Len(targets.rows) = Len(events)
          /\ \A i \in 1..Len(targets.rows) : targets.rows[i].ev = i
    /\ (~rewinds /\ isopen /\ features.status = "none" /\ targets.status # "none"
            /\ Len(events) > 0) =>
          targets.status = "ok"

====
